---------------------------- MODULE Spec2Model ----------------------------
(***************************************************************************)
(* The master supervision loop of hnakamur/serverstarter                   *)
(* (Starter.RunMaster, startProcess, waitChild, waitReady, SendReady),     *)
(* together with the environment it reacts to: signals sent to the master, *)
(* worker processes that write to their readiness pipe and exit, the       *)
(* exit-watcher goroutines and the shutdown-wait timer.                    *)
(*                                                                         *)
(* A generation is identified by the order in which it was spawned         *)
(* (1, 2, ...).  The channel made for a generation, its readiness pipe and *)
(* its process are all indexed by that number; childCmd, newChildCmd and   *)
(* readyPipeR hold such a number (0: none).                                *)
(***************************************************************************)
EXTENDS Integers, Sequences, FiniteSets

\* ------------------------------------------------------------------ bounds
\* Generations the master may spawn during one RunMaster call.
MaxGen == 3

\* --------------------------------------------------------------- constants
\* readyByte = 'r'
readyByte == 114
\* a byte that is not the sentinel ('x')
otherByte == readyByte + 6
\* signals := make(chan os.Signal, 1)
signalsCap == 1

Gens == 1..MaxGen

\* Signals the master subscribes to with signal.Notify.
MasterSignals == {"SIGHUP", "SIGINT", "SIGTERM"}

\* Values SetGracefulShutdownSignalToChild may configure (default SIGTERM).
GracefulChoices == {"SIGTERM", "SIGUSR1"}

\* What a worker may put on its readiness pipe before closing it: the one
\* sentinel byte of SendReady, or a deviation from the protocol.
WriteChoices == {<<readyByte>>, <<otherByte>>, <<readyByte, readyByte>>}

VARIABLES
    pc,            \* where RunMaster is
    ret,           \* what RunMaster returned ("none" while it runs)
    childCmd,      \* the current generation
    newChildCmd,   \* the generation spawned by the reload in progress
    nSpawned,      \* generations spawned so far
    proc,          \* per generation: the OS process, [st, err]
    watcher,       \* per generation: its waitChild goroutine
    waitErrC,      \* per generation: its buffered completion channel
    pipe,          \* per generation: its readiness pipe,
                   \* [data, wclosed, mclosed, ropen]
    readyPipeR,    \* s.readyPipeR: the generation whose pipe waitReady reads
    readyResult,   \* per generation: what waitReady returned for it
    sent,          \* per generation: the signals the master delivered to it
    signals,       \* the master's signals channel (capacity 1)
    timerFired,    \* timer.C of the shutdown-wait timer holds a value
    gracefulShutdownSignalToChild   \* s.gracefulShutdownSignalToChild

\* The handoff of the environment and of the descriptors from the master to a
\* worker (startProcess on one side, IsMaster and Listeners on the other).
VARIABLE handoff

\* The environment block of the process the program was launched as.
environ == handoff.environ
\* The descriptor table that process was launched with.
osFiles == handoff.osFiles
\* s.listeners: the listeners the master hands down.
listeners == handoff.listeners
\* cmd.Env: the environment of the started worker.
cmdEnv == handoff.cmdEnv
\* The descriptor table of the started worker.
cmdFiles == handoff.cmdFiles
\* cmd.Start() has returned for a worker.
started == handoff.started
\* What the last call of IsMaster or Listeners returned.
result == handoff.result

masterVars == <<pc, ret, childCmd, newChildCmd, nSpawned, proc, watcher,
                waitErrC, pipe, readyPipeR, readyResult, sent, signals,
                timerFired, gracefulShutdownSignalToChild>>

handoffVars == <<handoff>>

\* The re-exec of the program by startProcess: the directory, the arguments
\* and the standard streams a worker is started with.
VARIABLE reexec

\* The current directory of the master process.
cwd == reexec.cwd
\* s.workingDirectory ("": not yet captured).
workingDirectory == reexec.workingDirectory
\* The workers started so far, in order: [dir, args, stdio].
workers == reexec.workers

reexecVars == <<reexec>>

vars == <<masterVars, handoffVars, reexecVars>>

\* ------------------------------------------------------------ pure helpers

\* os.File.Read on the read end with a one-byte buffer: the first byte if one
\* is there, else end of file.  (Called only when IsReadable.)
Read(p) ==
    IF Len(p.data) > 0
    THEN [n |-> 1, b |-> Head(p.data), err |-> "nil"]
    ELSE [n |-> 0, b |-> 0, err |-> "EOF"]

\* Read blocks until a byte is there or every write end is closed: the
\* worker's (wclosed) and the master's own copy (mclosed).
IsReadable(p) == Len(p.data) > 0 \/ (p.wclosed /\ p.mclosed)

\* Faulty variant of waitReady: the value of the byte is not compared.
WaitReadyNoByteCheck(p) ==
    LET r == Read(p)
    IN  IF r.err # "nil" THEN "readError"
        ELSE IF r.n # 1 THEN "protocolError"
        ELSE "nil"

\* Starter.waitReady: "nil" on success, else the kind of error.
waitReady(p) ==
    LET r == Read(p)
    IN  IF r.err # "nil" THEN "readError"
        ELSE IF r.n # 1 \/ r.b # readyByte THEN "protocolError"
        ELSE "nil"

\* syscall.Kill succeeds for a process that runs or is a zombie; for one that
\* has been reaped it fails with ESRCH (the pid is taken not to be reused by
\* another process in the meantime).
KillOK(g) == proc[g].st \in {"running", "zombie"}

\* The exit of generation g has been received by the master from g's channel.
Observed(g) == watcher[g] = "done" /\ waitErrC[g] = <<>>

\* The generations whose readiness the master has confirmed.
Confirmed == {g \in Gens : readyResult[g] = "nil"}

\* ------------------------------------------------- handoff: strings, numbers
\* A Go string is modelled as the sequence of its characters.

\* stdFdCount = 3 // stdin, stdout, stderr
stdFdCount == 3

\* Listeners the master may hold (len(s.listeners)).
MaxListeners == 11

\* Entries in the environment the program is launched with.
MaxEnvLen == 2

\* defaultEnvListenFDs = "LISTEN_FDS"
defaultEnvListenFDs == <<"L", "I", "S", "T", "E", "N", "_", "F", "D", "S">>

\* s.envListenFDs as New sets it.
envListenFDs == defaultEnvListenFDs

Digits == <<"0", "1", "2", "3", "4", "5", "6", "7", "8", "9">>

IsDigit(c) == \E d \in 1..Len(Digits) : Digits[d] = c

DigitVal(c) == (CHOOSE d \in 1..Len(Digits) : Digits[d] = c) - 1

\* strconv.AppendInt(dst, n, 10) applied to an empty dst.
RECURSIVE FormatInt(_)
FormatInt(n) ==
    IF n < 0 THEN <<"-">> \o FormatInt(-n)
    ELSE IF n < Len(Digits) THEN <<Digits[n + 1]>>
    ELSE FormatInt(n \div Len(Digits)) \o <<Digits[(n % Len(Digits)) + 1]>>

\* The digits of strconv.Atoi's argument after the sign: the value, or -1
\* when a character is not a digit.
RECURSIVE ParseDigits(_, _)
ParseDigits(s, acc) ==
    IF s = <<>> THEN acc
    ELSE IF ~IsDigit(Head(s)) THEN -1
    ELSE ParseDigits(Tail(s), acc * Len(Digits) + DigitVal(Head(s)))

\* strconv.Atoi: an optional sign, then one or more decimal digits; anything
\* else is a syntax error.  (The strings here are too short for a range
\* error.)
Atoi(s) ==
    LET signed == s # <<>> /\ Head(s) \in {"+", "-"}
        digits == IF signed THEN Tail(s) ELSE s
        n      == ParseDigits(digits, 0)
    IN  IF digits = <<>> \/ n < 0 THEN [err |-> TRUE, n |-> 0]
        ELSE IF signed /\ Head(s) = "-" THEN [err |-> FALSE, n |-> -n]
        ELSE [err |-> FALSE, n |-> n]

\* strings.HasPrefix
HasPrefix(s, prefix) ==
    Len(s) >= Len(prefix) /\ SubSeq(s, 1, Len(prefix)) = prefix

\* The place of the first "=" of an environment entry (0: none).
IndexEq(e) ==
    LET at == {j \in 1..Len(e) : e[j] = "="}
    IN  IF at = {} THEN 0 ELSE CHOOSE j \in at : \A k \in at : j <= k

KeyOf(e) == SubSeq(e, 1, IndexEq(e) - 1)

ValueOf(e) == SubSeq(e, IndexEq(e) + 1, Len(e))

\* os.LookupEnv: the value of the first entry whose key is key.
LookupEnv(env, key) ==
    LET hits == {i \in 1..Len(env) : IndexEq(env[i]) > 0 /\ KeyOf(env[i]) = key}
    IN  IF hits = {} THEN [found |-> FALSE, value |-> <<>>]
        ELSE LET i == CHOOSE h \in hits : \A k \in hits : h <= k
             IN  [found |-> TRUE, value |-> ValueOf(env[i])]

\* ------------------------------------------------------ handoff: descriptors

Std == [kind |-> "std", id |-> 0]

Closed == [kind |-> "closed", id |-> 0]

PlainFile == [kind |-> "file", id |-> 0]

ReadyW == [kind |-> "readyW", id |-> 0]

Socket(i) == [kind |-> "socket", id |-> i]

\* The highest descriptor number a table lists; above it all are closed.
MaxFd == stdFdCount + 1 + MaxListeners

FdAt(tbl, fd) == IF fd \in DOMAIN tbl THEN tbl[fd] ELSE Closed

\* The table of a process that does not exist, or is not looked at.
NoTable == <<>>

\* A process started with nothing but the three standard descriptors.
StdOnly == [fd \in 0..MaxFd |-> IF fd < stdFdCount THEN Std ELSE Closed]

\* Descriptor tables the program may be launched with by something other
\* than a master: only the standard ones; two listening sockets behind a
\* plain file; a socket followed by a plain file.
FileTableChoices ==
    { StdOnly,
      [fd \in 0..MaxFd |->
          IF fd < stdFdCount THEN Std
          ELSE IF fd = stdFdCount THEN PlainFile
          ELSE IF fd <= stdFdCount + 2 THEN Socket(fd)
          ELSE Closed],
      [fd \in 0..MaxFd |->
          IF fd < stdFdCount THEN Std
          ELSE IF fd = stdFdCount + 1 THEN Socket(fd)
          ELSE IF fd = stdFdCount + 2 THEN PlainFile
          ELSE Closed] }

\* Values an entry of the launch environment may have for a key.
ValueChoices == { <<>>, <<"0">>, <<"2">>, <<"-", "1">>, <<"x">> }

\* Entries of the launch environment: the discriminator with any of the
\* values, a variable whose name only starts with the discriminator's, and
\* an unrelated one.
EntryChoices ==
    { envListenFDs \o <<"=">> \o v : v \in ValueChoices }
        \cup { envListenFDs \o <<"_", "X", "=", "1">>, <<"P", "=", "1">> }

EnvChoices == UNION { [1..k -> EntryChoices] : k \in 0..MaxEnvLen }

\* ------------------------------------------------------- handoff: operators

\* os.Environ(): the entries of the environment block in order, without the
\* later entries of a key that occurs before (the runtime clears them when
\* it first reads the block).
Environ(envs) ==
    LET Kept(i) ==
            \/ IndexEq(envs[i]) = 0
            \/ \A k \in 1..(i - 1) :
                  IndexEq(envs[k]) = 0 \/ KeyOf(envs[k]) # KeyOf(envs[i])
        RECURSIVE From(_)
        From(i) ==
            IF i > Len(envs) THEN <<>>
            ELSE (IF Kept(i) THEN <<envs[i]>> ELSE <<>>) \o From(i + 1)
    IN  From(1)

\* Faulty variant of ChildEnv: the entries of the discriminator that the
\* master's environment already has are passed on too.
ChildEnvNoFilter(env, n) ==
    env \o <<envListenFDs \o <<"=">> \o FormatInt(n)>>

\* startProcess, the environment of the worker: every entry of env that
\* does not start with "<name>=", then "<name>=<n>".
ChildEnv(env, n) ==
    LET envListenFDsPrefix == envListenFDs \o <<"=">>
        Keep(v) == ~HasPrefix(v, envListenFDsPrefix)
    IN  SelectSeq(env, Keep) \o <<envListenFDsPrefix \o FormatInt(n)>>

\* startProcess, cmd.ExtraFiles: files[0] = readyW, files[1+i] = listener i.
ExtraFiles(ls) == <<ReadyW>> \o ls

\* The descriptor table exec gives the worker: the standard three, then
\* entry i of cmd.ExtraFiles as descriptor 3 + i.
ChildFiles(extra) ==
    [fd \in 0..MaxFd |->
        IF fd < 3 THEN Std
        ELSE IF fd - 3 < Len(extra) THEN extra[fd - 3 + 1]
        ELSE Closed]

\* Faulty variant of IsMaster: an empty value counts as an absent variable.
IsMasterByValue(env) == LookupEnv(env, envListenFDs).value = <<>>

\* Starter.IsMaster
IsMaster(env) ==
    LET isWorker == LookupEnv(env, envListenFDs).found
    IN  ~isWorker

\* Faulty variant of Listeners: listener i is looked for at descriptor
\* stdFdCount + i.
ListenersFromStdFdCount(env, tbl) ==
    LET look == LookupEnv(env, envListenFDs)
        conv == Atoi(look.value)
        Fd(i) == stdFdCount + i
    IN  IF ~look.found THEN [err |-> "nil", ls |-> <<>>]
        ELSE IF conv.err THEN [err |-> "errConfig", ls |-> <<>>]
        ELSE IF conv.n < 0 THEN [err |-> "panic", ls |-> <<>>]
        ELSE IF \E i \in 0..(conv.n - 1) : FdAt(tbl, Fd(i)).kind # "socket"
             THEN [err |-> "errIO", ls |-> <<>>]
        ELSE [err |-> "nil", ls |-> [j \in 1..conv.n |-> FdAt(tbl, Fd(j - 1))]]

\* Starter.Listeners in a process with environment env and descriptor table
\* tbl.  err: "nil", "errConfig" (invalid listener count), "errIO" (failing
\* to create listener), or "panic": make([]net.Listener, count) with a
\* negative count does not return.
Listeners(env, tbl) ==
    LET look == LookupEnv(env, envListenFDs)
        conv == Atoi(look.value)
        Fd(i) == stdFdCount + 1 + i
    IN  IF ~look.found THEN [err |-> "nil", ls |-> <<>>]
        ELSE IF conv.err THEN [err |-> "errConfig", ls |-> <<>>]
        ELSE IF conv.n < 0 THEN [err |-> "panic", ls |-> <<>>]
        ELSE IF \E i \in 0..(conv.n - 1) : FdAt(tbl, Fd(i)).kind # "socket"
             THEN [err |-> "errIO", ls |-> <<>>]
        ELSE [err |-> "nil", ls |-> [j \in 1..conv.n |-> FdAt(tbl, Fd(j - 1))]]

\* The two processes: the one the program was launched as, and the worker
\* it started.
Processes == {"launched", "worker"}

EnvOf(p) == IF p = "launched" THEN environ ELSE cmdEnv

FilesOf(p) == IF p = "launched" THEN osFiles ELSE cmdFiles

NoResult == [op |-> "none", in |-> "none", master |-> FALSE, err |-> "nil",
             ls |-> <<>>]

\* --------------------------------------------------------- handoff: actions

\* startProcess up to cmd.Start(): the worker gets its environment and its
\* descriptors.
StartWorker ==
    /\ handoff' = [handoff EXCEPT
                       !.cmdEnv = ChildEnv(Environ(environ), Len(listeners)),
                       !.cmdFiles = ChildFiles(ExtraFiles(listeners)),
                       !.started = TRUE]
    /\ UNCHANGED <<masterVars, reexecVars>>

\* A call of IsMaster in process p.
CallIsMaster(p) ==
    /\ p = "worker" => started
    /\ handoff' = [handoff EXCEPT
                       !.result = [op |-> "IsMaster", in |-> p,
                                   master |-> IsMaster(EnvOf(p)),
                                   err |-> "nil", ls |-> <<>>]]
    /\ UNCHANGED <<masterVars, reexecVars>>

\* A call of Listeners in process p.
CallListeners(p) ==
    /\ p = "worker" => started
    /\ LET r == Listeners(EnvOf(p), FilesOf(p))
       IN  handoff' = [handoff EXCEPT
                          !.result = [op |-> "Listeners", in |-> p,
                                      master |-> FALSE,
                                      err |-> r.err, ls |-> r.ls]]
    /\ UNCHANGED <<masterVars, reexecVars>>

\* Nothing of the handoff is looked at.
HandoffIdle ==
    handoff = [environ |-> <<>>, osFiles |-> NoTable, listeners |-> <<>>,
               cmdEnv |-> <<>>, cmdFiles |-> NoTable, started |-> FALSE,
               result |-> NoResult]

\* ------------------------------------------------------------------ re-exec

\* Directories the master process may be in.
DirChoices == {"/", "/srv/app", "/tmp"}

\* os.Args of the master: the program as it was invoked, and its arguments.
osArgs == <<"server", "-c", "server.conf">>

\* exec.LookPath(os.Args[0]): the location of the binary.
LookPath(file) == "/usr/local/bin/" \o file

\* The standard streams of the master (os.Stdin, os.Stdout, os.Stderr).
osStdio == <<"stdin", "stdout", "stderr">>

\* exec.Command(name, arg...): Path and Args are set, Dir is left empty.
Command(name, args) ==
    [Path |-> name, Args |-> <<name>> \o args, Dir |-> "", Stdio |-> <<>>]

\* startProcess, lines 157-179: the command as it is when cmd.Start() is
\* called.  cmd.Dir is never assigned.
startProcessCmd ==
    LET argv0 == LookPath(Head(osArgs))
        cmd   == Command(argv0, Tail(osArgs))
    IN  [cmd EXCEPT !.Stdio = osStdio]

\* cmd.Start(): the process that results.  An empty cmd.Dir means the
\* current directory of the calling process.
Start(cmd) ==
    [dir   |-> IF cmd.Dir = "" THEN cwd ELSE cmd.Dir,
     args  |-> cmd.Args,
     stdio |-> cmd.Stdio]

\* RunMaster, lines 26-30: wd, err := os.Getwd(); s.workingDirectory = wd
Getwd ==
    /\ workingDirectory = ""
    /\ reexec' = [reexec EXCEPT !.workingDirectory = cwd]
    /\ UNCHANGED <<masterVars, handoffVars>>

\* The master process changes its current directory (os.Chdir in some
\* goroutine of the program) after the capture.
Chdir(d) ==
    /\ workingDirectory # ""
    /\ d # cwd
    /\ reexec' = [reexec EXCEPT !.cwd = d]
    /\ UNCHANGED <<masterVars, handoffVars>>

\* A startProcess of RunMaster: the initial one, a reload's or a restart's.
SpawnWorker ==
    /\ workingDirectory # ""
    /\ Len(workers) < MaxGen
    /\ reexec' = [reexec EXCEPT !.workers = Append(@, Start(startProcessCmd))]
    /\ UNCHANGED <<masterVars, handoffVars>>

\* Nothing of the re-exec is looked at.
ReexecIdle ==
    reexec = [cwd |-> "", workingDirectory |-> "", workers |-> <<>>]

\* ------------------------------------------------------------------- Init

RunMasterInit ==
    /\ pc = "start"
    /\ ret = "none"
    /\ childCmd = 0
    /\ newChildCmd = 0
    /\ nSpawned = 0
    /\ proc = [g \in Gens |-> [st |-> "none", err |-> "nil"]]
    /\ watcher = [g \in Gens |-> "none"]
    /\ waitErrC = [g \in Gens |-> <<>>]
    /\ pipe = [g \in Gens |-> [data |-> <<>>, wclosed |-> FALSE,
                              mclosed |-> FALSE, ropen |-> FALSE]]
    /\ readyPipeR = 0
    /\ readyResult = [g \in Gens |-> "none"]
    /\ sent = [g \in Gens |-> <<>>]
    /\ signals = <<>>
    /\ timerFired = FALSE
    /\ gracefulShutdownSignalToChild \in GracefulChoices

\* RunMaster is about to be called; the handoff is not looked at.
Init == RunMasterInit /\ HandoffIdle /\ ReexecIdle

\* ------------------------------------------------------- master: helpers

\* Faulty variant of startProcess: readyW.Close() is missing, so the master
\* keeps its copy of the write end.
startProcessKeepsWriteEnd(g) ==
    /\ g = nSpawned + 1
    /\ g \in Gens
    /\ nSpawned' = g
    /\ proc' = [proc EXCEPT ![g] = [st |-> "running", err |-> "nil"]]
    /\ pipe' = [pipe EXCEPT ![g] = [data |-> <<>>, wclosed |-> FALSE,
                                    mclosed |-> FALSE, ropen |-> TRUE]]
    /\ readyPipeR' = g

\* A successful startProcess: a fresh pipe whose read end is kept in
\* s.readyPipeR, the worker started with the write end, the master's copy of
\* the write end closed.  (A failing startProcess makes RunMaster return at
\* once in every caller, so what it leaves in s.readyPipeR is never read and
\* the callers keep readyPipeR unchanged on that branch.)
startProcess(g) ==
    /\ g = nSpawned + 1
    /\ g \in Gens
    /\ nSpawned' = g
    /\ proc' = [proc EXCEPT ![g] = [st |-> "running", err |-> "nil"]]
    /\ pipe' = [pipe EXCEPT ![g] = [data |-> <<>>, wclosed |-> FALSE,
                                    mclosed |-> TRUE, ropen |-> TRUE]]
    /\ readyPipeR' = g

\* Faulty variant of goWaitChild: no exit-watcher is started.
noWaitChild(g) ==
    UNCHANGED watcher

\* make(chan error, 1); go waitChild(cmd, c)
goWaitChild(g) ==
    watcher' = [watcher EXCEPT ![g] = "waiting"]

\* The end of waitReady: s.readyPipeR.Close() is reached only when the
\* result is nil; the two error returns come before it.
closeReadyPipeR(res) ==
    pipe' = IF res = "nil"
            THEN [pipe EXCEPT ![readyPipeR].ropen = FALSE]
            ELSE pipe

\* return <e> from RunMaster
Return(e) ==
    /\ pc' = "done"
    /\ ret' = e

\* syscall.Kill(pid of g, sig) returned nil
Kill(g, sig) ==
    sent' = [sent EXCEPT ![g] = Append(@, sig)]

\* err := <-c for the channel of generation g
Receive(g) ==
    waitErrC' = [waitErrC EXCEPT ![g] = <<>>]


\* Faulty variant of Promote: the old worker stays the current one.
PromoteKeepsOld ==
    /\ UNCHANGED childCmd
    /\ newChildCmd' = 0
    /\ pc' = "loop"

\* childCmd = newChildCmd; childWaitErrC = newChildWaitErrC
Promote ==
    /\ childCmd' = newChildCmd
    /\ newChildCmd' = 0
    /\ pc' = "loop"

\* x occurs in the sequence s
Has(s, x) == \E i \in 1..Len(s) : s[i] = x

\* RunMaster is still running: the model covers one call of RunMaster.
Running == pc # "done"

\* ------------------------------------------------------- master: actions

\* RunMaster up to the first waitReady: os.Getwd, startProcess, go waitChild.
StartInitial ==
    /\ pc = "start"
    /\ \E outcome \in {"getwdFail", "startFail", "ok"} :
        IF outcome = "ok"
        THEN /\ startProcess(1)
             /\ goWaitChild(1)
             /\ childCmd' = 1
             /\ pc' = "waitReadyInit"
             /\ UNCHANGED ret
        ELSE /\ Return(IF outcome = "getwdFail" THEN "errGetwd" ELSE "errStart")
             /\ UNCHANGED <<childCmd, nSpawned, proc, watcher, pipe, readyPipeR>>
    /\ UNCHANGED <<newChildCmd, waitErrC, readyResult, sent, signals, 
                   timerFired, gracefulShutdownSignalToChild, handoffVars,
                   reexecVars>>

\* Faulty variant of WaitReadyInitial: the loop is entered whatever
\* waitReady returned.
WaitReadyInitialIgnoresError ==
    /\ pc = "waitReadyInit"
    /\ IsReadable(pipe[readyPipeR])
    /\ LET res == waitReady(pipe[readyPipeR])
       IN  /\ readyResult' = [readyResult EXCEPT ![readyPipeR] = res]
           /\ closeReadyPipeR(res)
           /\ pc' = "loop"
    /\ UNCHANGED <<ret, childCmd, newChildCmd, nSpawned, proc, watcher,
                   waitErrC, readyPipeR, sent, signals, timerFired,
                   gracefulShutdownSignalToChild, handoffVars,
                   reexecVars>>

\* waitReady for the initial worker, then signal.Notify and the loop.
WaitReadyInitial ==
    /\ pc = "waitReadyInit"
    /\ IsReadable(pipe[readyPipeR])
    /\ LET res == waitReady(pipe[readyPipeR])
       IN  /\ readyResult' = [readyResult EXCEPT ![readyPipeR] = res]
           /\ closeReadyPipeR(res)
           /\ IF res = "nil"
              THEN pc' = "loop" /\ UNCHANGED ret
              ELSE Return("errReadyInit")
    /\ UNCHANGED <<childCmd, newChildCmd, nSpawned, proc, watcher, waitErrC,
                   readyPipeR, sent, signals, timerFired,
                   gracefulShutdownSignalToChild, handoffVars,
                   reexecVars>>

\* case SIGHUP: startProcess for the new worker, go waitChild.
HandleSIGHUP ==
    /\ pc = "loop"
    /\ signals # <<>>
    /\ Head(signals) = "SIGHUP"
    /\ nSpawned < MaxGen
    /\ signals' = Tail(signals)
    /\ \E ok \in BOOLEAN :
        IF ok
        THEN /\ startProcess(nSpawned + 1)
             /\ goWaitChild(nSpawned + 1)
             /\ newChildCmd' = nSpawned + 1
             /\ pc' = "hupWaitReady"
             /\ UNCHANGED ret
        ELSE /\ Return("errStartNew")
             /\ UNCHANGED <<newChildCmd, nSpawned, proc, watcher, pipe, readyPipeR>>
    /\ UNCHANGED <<childCmd, waitErrC, readyResult, sent, timerFired,
                   gracefulShutdownSignalToChild, handoffVars,
                   reexecVars>>

\* Faulty variant of WaitReadyReload: the old worker is signalled without
\* waiting for the new worker's readiness.
KillOldBeforeReady ==
    /\ pc = "hupWaitReady"
    /\ KillOK(childCmd)
    /\ Kill(childCmd, gracefulShutdownSignalToChild)
    /\ timerFired' = FALSE
    /\ pc' = "hupSelect"
    /\ UNCHANGED <<ret, childCmd, newChildCmd, nSpawned, proc, watcher, waitErrC,
                   pipe, readyPipeR, readyResult, signals, 
                   gracefulShutdownSignalToChild, handoffVars,
                   reexecVars>>

\* Faulty variant of WaitReadyReload: the result of waitReady is recorded
\* but not acted upon.
ReloadIgnoresReadyError ==
    /\ pc = "hupWaitReady"
    /\ IsReadable(pipe[readyPipeR])
    /\ readyResult' = [readyResult EXCEPT ![readyPipeR] = waitReady(pipe[readyPipeR])]
    /\ IF ~KillOK(childCmd)
       THEN Return("errKillGraceful") /\ UNCHANGED <<sent, timerFired>>
       ELSE /\ Kill(childCmd, gracefulShutdownSignalToChild)
            /\ timerFired' = FALSE
            /\ pc' = "hupSelect"
            /\ UNCHANGED ret
    /\ UNCHANGED <<childCmd, newChildCmd, nSpawned, proc, watcher, waitErrC,
                   pipe, readyPipeR, signals,
                   gracefulShutdownSignalToChild, handoffVars,
                   reexecVars>>

\* case SIGHUP, continued: waitReady for the new worker, then the graceful
\* shutdown signal to the old one and the shutdown-wait timer.
WaitReadyReload ==
    /\ pc = "hupWaitReady"
    /\ IsReadable(pipe[readyPipeR])
    /\ LET res == waitReady(pipe[readyPipeR])
       IN  /\ readyResult' = [readyResult EXCEPT ![readyPipeR] = res]
           /\ closeReadyPipeR(res)
           /\ IF res # "nil"
              THEN Return("errReady") /\ UNCHANGED <<sent, timerFired>>
              ELSE IF ~KillOK(childCmd)
              THEN Return("errKillGraceful") /\ UNCHANGED <<sent, timerFired>>
              ELSE /\ Kill(childCmd, gracefulShutdownSignalToChild)
                   /\ timerFired' = FALSE
                   /\ pc' = "hupSelect"
                   /\ UNCHANGED ret
    /\ UNCHANGED <<childCmd, newChildCmd, nSpawned, proc, watcher, waitErrC,
                   readyPipeR, signals, 
                   gracefulShutdownSignalToChild, handoffVars,
                   reexecVars>>

\* Faulty variant of HupSelectExit: the exit of the old worker is taken for
\* a crash and a further worker is spawned for it.
HupSelectExitRestarts ==
    /\ pc = "hupSelect"
    /\ waitErrC[childCmd] # <<>>
    /\ nSpawned < MaxGen
    /\ Receive(childCmd)
    /\ timerFired' = FALSE
    /\ startProcess(nSpawned + 1)
    /\ goWaitChild(nSpawned + 1)
    /\ Promote
    /\ UNCHANGED <<ret, readyResult, sent, signals,
                   gracefulShutdownSignalToChild, handoffVars,
                   reexecVars>>

\* Faulty variant of HupSelectExit: an error status of the old worker is
\* returned from RunMaster.
HupSelectExitReturnsError ==
    /\ pc = "hupSelect"
    /\ waitErrC[childCmd] # <<>>
    /\ Receive(childCmd)
    /\ timerFired' = FALSE
    /\ IF Head(waitErrC[childCmd]) = "nil"
       THEN Promote /\ UNCHANGED ret
       ELSE Return("errChild") /\ UNCHANGED <<childCmd, newChildCmd>>
    /\ UNCHANGED <<nSpawned, proc, watcher, pipe, readyPipeR, readyResult,
                   sent, signals, gracefulShutdownSignalToChild, handoffVars,
                   reexecVars>>

\* select, case err := <-childWaitErrC: the old worker exited in time.
HupSelectExit ==
    /\ pc = "hupSelect"
    /\ waitErrC[childCmd] # <<>>
    /\ Receive(childCmd)
    /\ timerFired' = FALSE
    /\ Promote
    /\ UNCHANGED <<ret, nSpawned, proc, watcher, pipe, readyPipeR, readyResult,
                   sent, signals, gracefulShutdownSignalToChild, handoffVars,
                   reexecVars>>

\* Faulty variant of HupSelectTimer: SIGKILL is sent without waiting for
\* the timer.
HupSelectKillsAtOnce ==
    /\ pc = "hupSelect"
    /\ timerFired' = FALSE
    /\ IF KillOK(childCmd)
       THEN /\ Kill(childCmd, "SIGKILL")
            /\ pc' = "hupKilled"
            /\ UNCHANGED ret
       ELSE Return("errKillSIGKILL") /\ UNCHANGED sent
    /\ UNCHANGED <<childCmd, newChildCmd, nSpawned, proc, watcher, waitErrC,
                   pipe, readyPipeR, readyResult, signals,
                   gracefulShutdownSignalToChild, handoffVars,
                   reexecVars>>

\* select, case <-timer.C: SIGKILL to the old worker.
HupSelectTimer ==
    /\ pc = "hupSelect"
    /\ timerFired
    /\ timerFired' = FALSE
    /\ IF KillOK(childCmd)
       THEN /\ Kill(childCmd, "SIGKILL")
            /\ pc' = "hupKilled"
            /\ UNCHANGED ret
       ELSE Return("errKillSIGKILL") /\ UNCHANGED sent
    /\ UNCHANGED <<childCmd, newChildCmd, nSpawned, proc, watcher, waitErrC,
                   pipe, readyPipeR, readyResult, signals, 
                   gracefulShutdownSignalToChild, handoffVars,
                   reexecVars>>

\* Faulty variant of HupKilledWait: the promotion makes a fresh channel for
\* the new worker, so a report already sent on the old one is lost.
HupKilledWaitDropsNewReport ==
    /\ pc = "hupKilled"
    /\ waitErrC[childCmd] # <<>>
    /\ waitErrC' = [waitErrC EXCEPT ![childCmd] = <<>>, ![newChildCmd] = <<>>]
    /\ Promote
    /\ UNCHANGED <<ret, nSpawned, proc, watcher, pipe, readyPipeR, readyResult,
                   sent, signals, timerFired,
                   gracefulShutdownSignalToChild, handoffVars,
                   reexecVars>>

\* Faulty variant of HupKilledWait: promotion without receiving the exit.
PromoteWithoutWaiting ==
    /\ pc = "hupKilled"
    /\ Promote
    /\ UNCHANGED <<ret, nSpawned, proc, watcher, waitErrC, pipe, readyPipeR,
                   readyResult, sent, signals, timerFired,
                   gracefulShutdownSignalToChild, handoffVars,
                   reexecVars>>

\* after SIGKILL: err := <-childWaitErrC without a timeout, then promotion.
HupKilledWait ==
    /\ pc = "hupKilled"
    /\ waitErrC[childCmd] # <<>>
    /\ Receive(childCmd)
    /\ Promote
    /\ UNCHANGED <<ret, nSpawned, proc, watcher, pipe, readyPipeR, readyResult,
                   sent, signals, timerFired,
                   gracefulShutdownSignalToChild, handoffVars,
                   reexecVars>>

\* Faulty variant of HandleStop: a stop signal is also taken from the
\* channel while the master waits for the readiness of a new worker.
HandleStopWhileWaiting ==
    /\ pc \in {"loop", "hupWaitReady"}
    /\ signals # <<>>
    /\ Head(signals) \in {"SIGINT", "SIGTERM"}
    /\ signals' = Tail(signals)
    /\ IF KillOK(childCmd)
       THEN /\ Kill(childCmd, "SIGTERM")
            /\ pc' = "stopWait"
            /\ UNCHANGED ret
       ELSE Return("errKillSIGTERM") /\ UNCHANGED sent
    /\ UNCHANGED <<childCmd, newChildCmd, nSpawned, proc, watcher, waitErrC,
                   pipe, readyPipeR, readyResult, timerFired,
                   gracefulShutdownSignalToChild, handoffVars,
                   reexecVars>>

\* Faulty variant of HandleStop: the configured graceful-shutdown signal is
\* sent instead of SIGTERM.
HandleStopSendsConfigured ==
    /\ pc = "loop"
    /\ signals # <<>>
    /\ Head(signals) \in {"SIGINT", "SIGTERM"}
    /\ signals' = Tail(signals)
    /\ IF KillOK(childCmd)
       THEN /\ Kill(childCmd, gracefulShutdownSignalToChild)
            /\ pc' = "stopWait"
            /\ UNCHANGED ret
       ELSE Return("errKillSIGTERM") /\ UNCHANGED sent
    /\ UNCHANGED <<childCmd, newChildCmd, nSpawned, proc, watcher, waitErrC,
                   pipe, readyPipeR, readyResult, timerFired,
                   gracefulShutdownSignalToChild, handoffVars,
                   reexecVars>>

\* case SIGINT, SIGTERM: SIGTERM to the current worker.
HandleStop ==
    /\ pc = "loop"
    /\ signals # <<>>
    /\ Head(signals) \in {"SIGINT", "SIGTERM"}
    /\ signals' = Tail(signals)
    /\ IF KillOK(childCmd)
       THEN /\ Kill(childCmd, "SIGTERM")
            /\ pc' = "stopWait"
            /\ UNCHANGED ret
       ELSE Return("errKillSIGTERM") /\ UNCHANGED sent
    /\ UNCHANGED <<childCmd, newChildCmd, nSpawned, proc, watcher, waitErrC,
                   pipe, readyPipeR, readyResult, timerFired,
                   gracefulShutdownSignalToChild, handoffVars,
                   reexecVars>>

\* Faulty variant of StopWait: the wait for the exit is bounded, and a
\* worker that has not exited is sent SIGKILL.
StopWaitKillsAfterTimeout ==
    /\ pc = "stopWait"
    /\ IF waitErrC[childCmd] # <<>>
       THEN /\ Receive(childCmd)
            /\ Return(IF Head(waitErrC[childCmd]) = "nil" THEN "nil" ELSE "errChild")
            /\ UNCHANGED sent
       ELSE /\ KillOK(childCmd)
            /\ ~Has(sent[childCmd], "SIGKILL")
            /\ Kill(childCmd, "SIGKILL")
            /\ UNCHANGED <<pc, ret, waitErrC>>
    /\ UNCHANGED <<childCmd, newChildCmd, nSpawned, proc, watcher, pipe,
                   readyPipeR, readyResult, signals, timerFired,
                   gracefulShutdownSignalToChild, handoffVars,
                   reexecVars>>

\* Faulty variant of StopWait: RunMaster returns without receiving the exit.
StopWaitReturnsAtOnce ==
    /\ pc = "stopWait"
    /\ Return("nil")
    /\ UNCHANGED <<childCmd, newChildCmd, nSpawned, proc, watcher, waitErrC,
                   pipe, readyPipeR, readyResult, sent, signals, timerFired,
                   gracefulShutdownSignalToChild, handoffVars,
                   reexecVars>>

\* case SIGINT, SIGTERM, continued: err := <-childWaitErrC, then return.
StopWait ==
    /\ pc = "stopWait"
    /\ waitErrC[childCmd] # <<>>
    /\ Receive(childCmd)
    /\ Return(IF Head(waitErrC[childCmd]) = "nil" THEN "nil" ELSE "errChild")
    /\ UNCHANGED <<childCmd, newChildCmd, nSpawned, proc, watcher, pipe,
                   readyPipeR, readyResult, sent, signals, timerFired,
                   gracefulShutdownSignalToChild, handoffVars,
                   reexecVars>>

\* Faulty variant of RestartChild: a worker that exited cleanly is not
\* replaced.
RestartOnlyAfterFailure ==
    /\ pc = "loop"
    /\ waitErrC[childCmd] # <<>>
    /\ nSpawned < MaxGen
    /\ Receive(childCmd)
    /\ IF Head(waitErrC[childCmd]) = "nil"
       THEN UNCHANGED <<pc, ret, childCmd, nSpawned, proc, watcher, pipe, readyPipeR>>
       ELSE \E ok \in BOOLEAN :
            IF ok
            THEN /\ startProcess(nSpawned + 1)
                 /\ goWaitChild(nSpawned + 1)
                 /\ childCmd' = nSpawned + 1
                 /\ UNCHANGED <<pc, ret>>
            ELSE /\ Return("errRestart")
                 /\ UNCHANGED <<childCmd, nSpawned, proc, watcher, pipe, readyPipeR>>
    /\ UNCHANGED <<newChildCmd, readyResult, sent, signals, timerFired,
                   gracefulShutdownSignalToChild, handoffVars,
                   reexecVars>>

\* case err := <-childWaitErrC of the loop: always restart the worker.
RestartChild ==
    /\ pc = "loop"
    /\ waitErrC[childCmd] # <<>>
    /\ nSpawned < MaxGen
    /\ Receive(childCmd)
    /\ \E ok \in BOOLEAN :
        IF ok
        THEN /\ startProcess(nSpawned + 1)
             /\ goWaitChild(nSpawned + 1)
             /\ childCmd' = nSpawned + 1
             /\ UNCHANGED <<pc, ret>>
        ELSE /\ Return("errRestart")
             /\ UNCHANGED <<childCmd, nSpawned, proc, watcher, pipe, readyPipeR>>
    /\ UNCHANGED <<newChildCmd, readyResult, sent, signals, timerFired,
                   gracefulShutdownSignalToChild, handoffVars,
                   reexecVars>>

\* ------------------------------------------------------------ environment

\* A SIGHUP, SIGINT or SIGTERM reaches the master after signal.Notify: the
\* runtime sends it on the signals channel without blocking, and drops it
\* when the channel is full.
SendSignal(sig) ==
    /\ pc \notin {"start", "waitReadyInit", "done"}
    /\ signals' = IF Len(signals) < signalsCap THEN Append(signals, sig) ELSE signals
    /\ UNCHANGED <<pc, ret, childCmd, newChildCmd, nSpawned, proc, watcher,
                   waitErrC, pipe, readyPipeR, readyResult, sent, timerFired,
                   gracefulShutdownSignalToChild, handoffVars,
                   reexecVars>>

\* The worker writes the bytes bs to descriptor 3 and closes it.
ChildWrite(g, bs) ==
    /\ Running
    /\ proc[g].st = "running"
    /\ ~pipe[g].wclosed
    /\ pipe' = [pipe EXCEPT ![g].data = bs, ![g].wclosed = TRUE]
    /\ UNCHANGED <<pc, ret, childCmd, newChildCmd, nSpawned, proc, watcher,
                   waitErrC, readyPipeR, readyResult, sent, signals, 
                   timerFired, gracefulShutdownSignalToChild, handoffVars,
                   reexecVars>>

\* Starter.SendReady in the worker g: one readyByte, then Close.
SendReady(g) == ChildWrite(g, <<readyByte>>)

\* A worker that does not follow the protocol: a wrong byte, or two bytes.
ChildMisbehave(g) ==
    \E bs \in WriteChoices \ {<<readyByte>>} : ChildWrite(g, bs)

\* The worker process g exits, by itself or because of a signal; its write
\* end of the pipe closes with it.  After SIGKILL the status is a failure.
ChildExit(g) ==
    /\ Running
    /\ proc[g].st = "running"
    /\ \E e \in {"nil", "err"} :
        /\ Has(sent[g], "SIGKILL") => e = "err"
        /\ proc' = [proc EXCEPT ![g] = [st |-> "zombie", err |-> e]]
    /\ pipe' = [pipe EXCEPT ![g].wclosed = TRUE]
    /\ UNCHANGED <<pc, ret, childCmd, newChildCmd, nSpawned, watcher, waitErrC,
                   readyPipeR, readyResult, sent, signals, timerFired,
                   gracefulShutdownSignalToChild, handoffVars,
                   reexecVars>>

\* waitChild: cmd.Wait() returns for the exited worker (which reaps it) and
\* the result is sent on the worker's channel.
waitChild(g) ==
    /\ Running
    /\ watcher[g] = "waiting"
    /\ proc[g].st = "zombie"
    /\ proc' = [proc EXCEPT ![g].st = "reaped"]
    /\ watcher' = [watcher EXCEPT ![g] = "done"]
    /\ waitErrC' = [waitErrC EXCEPT ![g] = Append(@, proc[g].err)]
    /\ UNCHANGED <<pc, ret, childCmd, newChildCmd, nSpawned, pipe, readyPipeR,
                   readyResult, sent, signals, timerFired,
                   gracefulShutdownSignalToChild, handoffVars,
                   reexecVars>>

\* s.childShutdownWaitTimeout elapses: the runtime sends on timer.C.
TimerFire ==
    /\ pc = "hupSelect"
    /\ ~timerFired
    /\ timerFired' = TRUE
    /\ UNCHANGED <<pc, ret, childCmd, newChildCmd, nSpawned, proc, watcher,
                   waitErrC, pipe, readyPipeR, readyResult, sent, signals,
                   gracefulShutdownSignalToChild, handoffVars,
                   reexecVars>>

\* ------------------------------------------------------------------- Next

Next ==
    \/ StartInitial
    \/ WaitReadyInitial
    \/ HandleSIGHUP
    \/ WaitReadyReload
    \/ HupSelectExit
    \/ HupSelectTimer
    \/ HupKilledWait
    \/ HandleStop
    \/ StopWait
    \/ RestartChild
    \/ TimerFire
    \/ \E sig \in MasterSignals : SendSignal(sig)
    \/ \E g \in Gens : SendReady(g)
    \/ \E g \in Gens : ChildMisbehave(g)
    \/ \E g \in Gens : ChildExit(g)
    \/ \E g \in Gens : waitChild(g)

Spec == Init /\ [][Next]_vars

\* -------------------------------------------------------- handoff: the spec

\* The program is launched with any environment and descriptor table, and
\* holds any number of listeners; RunMaster has not started.
HandoffInit ==
    /\ RunMasterInit
    /\ ReexecIdle
    /\ \E env \in EnvChoices, tbl \in FileTableChoices, n \in 0..MaxListeners :
          handoff = [environ |-> env, osFiles |-> tbl,
                     listeners |-> [i \in 1..n |-> Socket(i)],
                     cmdEnv |-> <<>>, cmdFiles |-> NoTable,
                     started |-> FALSE, result |-> NoResult]

HandoffNext ==
    \/ StartWorker
    \/ \E p \in Processes : CallIsMaster(p)
    \/ \E p \in Processes : CallListeners(p)

HandoffSpec == HandoffInit /\ [][HandoffNext]_vars

\* ------------------------------------------------------- re-exec: the spec

\* RunMaster is called in a process that is in any directory.
ReexecInit ==
    /\ RunMasterInit
    /\ HandoffIdle
    /\ \E d \in DirChoices :
          reexec = [cwd |-> d, workingDirectory |-> "", workers |-> <<>>]

ReexecNext ==
    \/ Getwd
    \/ \E d \in DirChoices : Chdir(d)
    \/ SpawnWorker

ReexecSpec == ReexecInit /\ [][ReexecNext]_vars


\* ================================================================ claims

\* The master is inside a reload: between the spawn of the new worker and
\* the promotion (or the return from RunMaster out of the reload).
InReload == newChildCmd # 0

\* ---------------------------------------------------------------------
\* C1: in every reload, the old generation has been sent a signal by the
\* master only if waitReady has already returned success for the
\* generation that this reload spawned.
C1_ReadyBeforeShutdownSignal ==
    (InReload /\ sent[childCmd] # <<>>) => readyResult[newChildCmd] = "nil"

\* C1 witness: a reload has sent the graceful signal to the old worker
\* after confirming the new one.
C1_Witness ==
    /\ pc = "hupSelect"
    /\ sent[childCmd] = <<gracefulShutdownSignalToChild>>
    /\ readyResult[newChildCmd] = "nil"

\* ---------------------------------------------------------------------
\* C2 (as claimed): once Steady has been reached, and outside the gap of
\* Stop between the terminate signal and the exit, the master has at least
\* one generation whose readiness it confirmed and whose exit it has not
\* observed.
C2_AlwaysAConfirmedGeneration ==
    (readyResult[1] = "nil" /\ pc \in {"loop", "hupWaitReady", "hupSelect", "hupKilled"})
        => \E g \in Confirmed : g \in {childCmd, newChildCmd} /\ ~Observed(g)

\* ---------------------------------------------------------------------
\* C3 (as claimed): RunMaster never returns an error because a worker
\* that had already exited could not be signalled.
C3_CrashNeverSurfaced ==
    ret \notin {"errKillGraceful", "errKillSIGKILL", "errKillSIGTERM"}

\* ---------------------------------------------------------------------
\* C4: whenever the loop receives the exit of the current generation
\* (case childWaitErrC), whatever the status received, it makes one spawn:
\* either exactly one new generation exists, is running, is watched and is
\* the current one with the master back in the loop, or the spawn failed
\* and RunMaster returns that error with no generation added.
C4_RestartSpawnsOneReplacement ==
    [][(pc = "loop" /\ waitErrC[childCmd] # <<>> /\ waitErrC'[childCmd] = <<>>)
        => \/ /\ pc' = "loop"
              /\ nSpawned' = nSpawned + 1
              /\ childCmd' = nSpawned'
              /\ proc'[childCmd'].st = "running"
              /\ watcher'[childCmd'] = "waiting"
              /\ newChildCmd' = 0
           \/ /\ ret' = "errRestart"
              /\ nSpawned' = nSpawned]_vars

\* C4 witness: two crashes in a row, one clean and one failing, each
\* followed by one replacement; no reload or stop took part.
C4_Witness ==
    /\ pc = "loop"
    /\ nSpawned = 3
    /\ childCmd = 3
    /\ Observed(1) /\ Observed(2)
    /\ sent[1] = <<>> /\ sent[2] = <<>>
    /\ proc[1].err = "nil" /\ proc[2].err = "err"

\* ---------------------------------------------------------------------
\* C5 (as claimed): when RunMaster has returned from the stop handler, the
\* current generation was sent SIGTERM exactly once and its exit has been
\* received from its channel.
C5_StopSignalsOnceAndAwaitsExit ==
    ret \in {"nil", "errChild", "errKillSIGTERM"}
        => sent[childCmd] = <<"SIGTERM">> /\ Observed(childCmd)

\* ---------------------------------------------------------------------
\* C6: in the timeout path of a reload the master is waiting for the old
\* generation only after it sent SIGKILL to it, and it leaves that wait
\* only by receiving the old generation's exit, which is when the new
\* generation is promoted.
C6_ForcedKillPrecedesPromotion ==
    /\ [](pc = "hupKilled"
            => /\ Has(sent[childCmd], "SIGKILL")
               /\ ~Observed(childCmd)
               /\ childCmd # newChildCmd)
    /\ [][(pc = "hupSelect" /\ pc' = "hupKilled")
            => timerFired /\ sent'[childCmd] = Append(sent[childCmd], "SIGKILL")]_vars
    /\ [][(pc = "hupKilled" /\ pc' # "hupKilled")
            => /\ waitErrC[childCmd] # <<>>
               /\ waitErrC'[childCmd] = <<>>
               /\ watcher[childCmd] = "done"
               /\ childCmd' = newChildCmd
               /\ pc' = "loop"]_vars

\* C6 witness: a reload went through the timeout path and promoted.
C6_Witness ==
    /\ pc = "loop"
    /\ \E g \in Gens :
        /\ g # childCmd
        /\ sent[g] = <<gracefulShutdownSignalToChild, "SIGKILL">>
        /\ Observed(g)

\* ---------------------------------------------------------------------
\* C7: every spawned generation has its own exit-watcher; a generation is
\* reaped exactly when its watcher has finished, the watcher reports at
\* most one status, and while RunMaster runs the watcher of an exited
\* generation that is still a zombie is able to collect it.
C7_EveryExitCollectedOnce ==
    \A g \in Gens :
        /\ proc[g].st = "none" <=> watcher[g] = "none"
        /\ proc[g].st \in {"running", "zombie"} <=> watcher[g] = "waiting"
        /\ proc[g].st = "reaped" <=> watcher[g] = "done"
        /\ Len(waitErrC[g]) <= 1
        /\ waitErrC[g] # <<>> => watcher[g] = "done" /\ Head(waitErrC[g]) = proc[g].err
        /\ (proc[g].st = "zombie" /\ Running) => ENABLED waitChild(g)

\* C7 witness: one generation collected after a graceful exit, one after a
\* forced kill and one after an unsolicited exit.
C7_Witness ==
    /\ proc[1].st = "reaped" /\ sent[1] = <<gracefulShutdownSignalToChild>>
    /\ proc[2].st = "reaped" /\ Has(sent[2], "SIGKILL")
    /\ proc[3].st = "reaped" /\ sent[3] = <<>>

C9_FailedReadinessKeepsOldGeneration ==
    (InReload /\ readyResult[newChildCmd] \notin {"none", "nil"})
        => /\ pc = "done"
           /\ ret = "errReady"
           /\ sent[childCmd] = <<>>

\* C9 witness: a reload failed on readiness while the old worker runs.
C9_Witness ==
    /\ ret = "errReady"
    /\ readyResult[newChildCmd] = "protocolError"
    /\ proc[childCmd].st = "running"
    /\ sent[childCmd] = <<>>

\* ---------------------------------------------------------------------
\* C10 (as claimed): the generation that is current while the master is
\* in the loop has had its readiness confirmed by waitReady.
C10_CurrentGenerationWasAwaited ==
    pc = "loop" => readyResult[childCmd] = "nil"

\* ---------------------------------------------------------------------
\* C11: in a started worker descriptor 3 is the write end of the readiness
\* pipe and descriptor 4+i is the master's listener i; Listeners called in
\* the worker returns, without error, exactly the master's listeners in
\* their order.
C11_DescriptorHandoffRoundTrip ==
    started =>
        /\ cmdFiles[3] = ReadyW
        /\ \A i \in 0..(Len(listeners) - 1) : cmdFiles[4 + i] = listeners[i + 1]
        /\ (result.op = "Listeners" /\ result.in = "worker")
              => result.err = "nil" /\ result.ls = listeners

\* C11 witness: a worker has reconstructed the largest number of listeners
\* (a count of two digits).
C11_Witness ==
    /\ result.op = "Listeners"
    /\ result.in = "worker"
    /\ result.err = "nil"
    /\ Len(result.ls) = MaxListeners
    /\ result.ls[MaxListeners] = Socket(MaxListeners)

\* ---------------------------------------------------------------------
\* C12: a call of IsMaster returns false exactly when the environment of
\* the calling process has an entry "<name>=<value>", whatever the value;
\* the call changes nothing else.
C12_IsMasterIffDiscriminatorAbsent ==
    [][(result' # result /\ result'.op = "IsMaster")
        => /\ LET env == EnvOf(result'.in)
              IN  result'.master
                    = ~(\E i \in 1..Len(env) :
                          HasPrefix(env[i], envListenFDs \o <<"=">>))
           /\ UNCHANGED <<environ, osFiles, listeners, cmdEnv, cmdFiles,
                          started, masterVars>>]_vars

\* C12 witness: IsMaster returned false for a discriminator that is set to
\* the empty value.
C12_Witness ==
    /\ result.op = "IsMaster"
    /\ result.in = "launched"
    /\ ~result.master
    /\ LookupEnv(environ, envListenFDs) = [found |-> TRUE, value |-> <<>>]

\* ---------------------------------------------------------------------
\* C13 (as claimed): Listeners returns nil and no error when the
\* discriminator is absent, a configuration error when its value is not a
\* non-negative decimal integer ("", "x", "-1", ...), an I/O error when
\* one of the descriptors 4 .. 4+count-1 is not a socket, and count
\* listeners otherwise.
C13_ListenersErrorKinds ==
    result.op = "Listeners" =>
        LET look  == LookupEnv(EnvOf(result.in), envListenFDs)
            valid == /\ look.value # <<>>
                     /\ \A j \in 1..Len(look.value) : IsDigit(look.value[j])
            count == ParseDigits(look.value, 0)
        IN  IF ~look.found THEN result.err = "nil" /\ result.ls = <<>>
            ELSE IF ~valid THEN result.err = "errConfig"
            ELSE IF \E i \in 0..(count - 1) :
                       FdAt(FilesOf(result.in), 4 + i).kind # "socket"
                 THEN result.err = "errIO"
            ELSE result.err = "nil" /\ Len(result.ls) = count

\* ---------------------------------------------------------------------
\* C14: the environment of a started worker has exactly one entry of the
\* discriminator, the last one; its value is the decimal form of the number
\* of the master's listeners and parses back to that number; the entries
\* before it are the master's entries of every other variable, in order.
C14_ChildEnvironment ==
    started =>
        LET last == Len(cmdEnv)
            own  == {i \in 1..last : KeyOf(cmdEnv[i]) = envListenFDs}
            IsOther(e) == KeyOf(e) # envListenFDs
        IN  /\ own = {last}
            /\ Atoi(ValueOf(cmdEnv[last]))
                 = [err |-> FALSE, n |-> Len(listeners)]
            /\ SubSeq(cmdEnv, 1, last - 1)
                 = SelectSeq(Environ(environ), IsOther)

\* C14 witness: a worker was started by a master whose own environment has
\* the discriminator (set twice, to values that are no count) and that holds
\* the largest number of listeners.
C14_Witness ==
    /\ started
    /\ Len(listeners) = MaxListeners
    /\ Len(environ) = 2
    /\ environ[1] = envListenFDs \o <<"=", "x">>
    /\ environ[2] = envListenFDs \o <<"=", "2">>

\* ---------------------------------------------------------------------
\* C15 (as claimed): when RunMaster has returned from the stop handler,
\* the exit report of the current generation has been received, and the
\* return value is nil exactly when that report was clean and the child's
\* failure otherwise.
C15_StopReturnsTheChildsReport ==
    ret \in {"nil", "errChild", "errKillSIGTERM"}
        => /\ Observed(childCmd)
           /\ ret = (IF proc[childCmd].err = "nil" THEN "nil" ELSE "errChild")

\* ---------------------------------------------------------------------
\* C16 (as claimed): while a reload is in progress no top-level event is
\* taken from the signals channel, and a reload or stop signal that
\* arrives is queued, not lost: after its arrival it is in the channel.
C16_SignalDuringReloadIsQueued ==
    pc \in {"hupWaitReady", "hupSelect", "hupKilled"}
        => /\ ~ENABLED HandleSIGHUP
           /\ ~ENABLED HandleStop
           /\ \A sig \in MasterSignals :
                ~ENABLED (SendSignal(sig) /\ ~Has(signals', sig))

\* ---------------------------------------------------------------------
\* The generations spawned whose exit the master has not yet received.
Unobserved == {g \in 1..nSpawned : ~Observed(g)}

\* C17: the generations whose exit is not yet observed are never more than
\* two, and are two only inside a reload; while RunMaster runs (after the
\* initial spawn) they are exactly the one current generation and, inside
\* a reload, the new one.
C17_OneCurrentAtMostTwoLive ==
    /\ Cardinality(Unobserved) <= 2
    /\ Cardinality(Unobserved) = 2 => InReload /\ childCmd # newChildCmd
    /\ pc \notin {"start", "done"}
        => /\ childCmd \in 1..nSpawned
           /\ Unobserved = {childCmd} \cup (IF InReload THEN {newChildCmd} ELSE {})

\* C17 witness: two generations coexist inside a reload.
C17_Witness ==
    /\ pc = "hupSelect"
    /\ Unobserved = {childCmd, newChildCmd}
    /\ Cardinality(Unobserved) = 2

\* ---------------------------------------------------------------------
\* C18 (as claimed): a read end created by startProcess is open in the
\* master only until the waitReady that follows its spawn has returned:
\* not after a return of waitReady, success or failure, and not after a
\* spawn path that is over.
C18_ReadEndClosedAfterUse ==
    \A g \in Gens :
        pipe[g].ropen
            => g = readyPipeR /\ pc \in {"waitReadyInit", "hupWaitReady"}

\* ---------------------------------------------------------------------
\* C19: while the master is in waitReady, as soon as the worker it waits
\* for has written a byte or has exited the read can complete, so that
\* waitReady returns; an exit without a byte gives the read error.
C19_WaitReadyNotBlockedByOwnWriteEnd ==
    /\ (/\ pc \in {"waitReadyInit", "hupWaitReady"}
        /\ \/ pipe[readyPipeR].data # <<>>
           \/ proc[readyPipeR].st # "running")
            => ENABLED (WaitReadyInitial \/ WaitReadyReload)
    /\ \A g \in Gens :
        readyResult[g] = "readError" => pipe[g].data = <<>> /\ pipe[g].wclosed

\* C19 witness: a worker exited without writing and waitReady returned the
\* end-of-pipe failure.
C19_Witness ==
    /\ ret = "errReady"
    /\ readyResult[newChildCmd] = "readError"
    /\ proc[newChildCmd].st # "running"
    /\ pipe[newChildCmd].data = <<>>

\* ---------------------------------------------------------------------
\* C20: when the master receives the old generation's exit inside a
\* reload, in time or after the forced kill, then whatever the status
\* RunMaster does not return, the new generation becomes current and the
\* master is back in the loop.
C20_OldWorkerErrorDoesNotAbort ==
    [][(/\ pc \in {"hupSelect", "hupKilled"}
        /\ waitErrC[childCmd] # <<>>
        /\ waitErrC'[childCmd] = <<>>)
        => /\ pc' = "loop"
           /\ ret' = "none"
           /\ childCmd' = newChildCmd
           /\ newChildCmd' = 0]_vars

\* C20 witness: one old generation exited in time with an error, another
\* was force-killed (an error status), and the master is in the loop.
C20_Witness ==
    /\ pc = "loop"
    /\ ret = "none"
    /\ childCmd = 3
    /\ sent[1] = <<gracefulShutdownSignalToChild>>
    /\ Observed(1) /\ proc[1].err = "err"
    /\ Has(sent[2], "SIGKILL")
    /\ Observed(2) /\ proc[2].err = "err"

\* ---------------------------------------------------------------------
\* C21: the shutdown-wait timer runs only in the select of a reload; while
\* the master waits in the stop handler the one signal it has sent to the
\* current generation is SIGTERM, it sends nothing more and it leaves the
\* handler only by receiving that generation's exit report; whenever
\* RunMaster has returned from the stop handler the current generation has
\* exited and was never sent SIGKILL.
C21_NoTimeoutOnStop ==
    /\ [](/\ timerFired => pc = "hupSelect"
          /\ pc = "stopWait" => sent[childCmd] = <<"SIGTERM">>
          /\ ret \in {"nil", "errChild", "errKillSIGTERM"}
                => /\ proc[childCmd].st = "reaped"
                   /\ ~Has(sent[childCmd], "SIGKILL"))
    /\ [][pc = "stopWait"
            => /\ sent' = sent
               /\ \/ pc' = "stopWait"
                  \/ pc' = "done" /\ waitErrC[childCmd] # <<>>]_vars

\* C21 witness: the master waits in the stop handler for a worker that was
\* sent SIGTERM and still runs.
C21_Witness ==
    /\ pc = "stopWait"
    /\ sent[childCmd] = <<"SIGTERM">>
    /\ proc[childCmd].st = "running"

\* ---------------------------------------------------------------------
\* C22: while the master is in the waitReady of a reload and the new
\* worker has neither written nor exited, no step handles anything: the
\* master stays where it is, nothing is taken from the signals channel or
\* from a completion channel, nothing is spawned, and the old generation
\* has no signal from the master and stays the current one.
C22_BlockedInWaitReady ==
    [][(pc = "hupWaitReady" /\ ~IsReadable(pipe[readyPipeR]))
        => /\ sent[childCmd] = <<>>
           /\ UNCHANGED <<pc, ret, childCmd, newChildCmd, nSpawned, sent,
                          readyResult>>
           /\ \A g \in Gens : Len(waitErrC'[g]) >= Len(waitErrC[g])
           /\ Len(signals') >= Len(signals)]_vars

\* C22 witness: the master is blocked while a signal is queued and the
\* exit report of the old generation is in its channel.
C22_Witness ==
    /\ pc = "hupWaitReady"
    /\ ~IsReadable(pipe[readyPipeR])
    /\ signals # <<>>
    /\ waitErrC[childCmd] # <<>>

\* ---------------------------------------------------------------------
\* C23 (as claimed): RunMaster has returned only out of the stop handler
\* (nil, the child's failure, or the handler's failing Kill) or with the
\* fatal error of a spawn (the start included) or of a readiness
\* confirmation.
C23_ReturnsOnlyByStopOrSpawnError ==
    ret # "none"
        => ret \in {"nil", "errChild", "errKillSIGTERM",
                    "errGetwd", "errStart", "errStartNew", "errRestart",
                    "errReadyInit", "errReady"}

\* ---------------------------------------------------------------------
\* C24: every signal the master sends goes to the current generation and
\* is one of three: the configured graceful-shutdown signal, sent by the
\* reload after waitReady; SIGTERM, sent by the stop handler whatever is
\* configured; SIGKILL, sent by the timer case of the reload's select.
C24_SignalsSentToChildren ==
    [][/\ sent' # sent =>
            \E s \in {gracefulShutdownSignalToChild, "SIGTERM", "SIGKILL"} :
                /\ childCmd \in Gens
                /\ sent' = [sent EXCEPT ![childCmd] = Append(@, s)]
                /\ \/ pc = "hupWaitReady" /\ s = gracefulShutdownSignalToChild
                   \/ pc = "loop" /\ pc' = "stopWait" /\ s = "SIGTERM"
                   \/ pc = "hupSelect" /\ s = "SIGKILL"
       /\ (pc = "hupWaitReady" /\ pc' = "hupSelect")
            => sent'[childCmd]
                 = Append(sent[childCmd], gracefulShutdownSignalToChild)
       /\ (pc = "loop" /\ pc' = "stopWait")
            => sent'[childCmd] = Append(sent[childCmd], "SIGTERM")]_vars

\* C24 witness: with SIGUSR1 configured, a reload sent SIGUSR1 and then
\* SIGKILL to the old worker, and the stop handler sent SIGTERM to the
\* current one.
C24_Witness ==
    /\ gracefulShutdownSignalToChild = "SIGUSR1"
    /\ sent[1] = <<"SIGUSR1", "SIGKILL">>
    /\ pc = "stopWait"
    /\ childCmd = 2
    /\ sent[2] = <<"SIGTERM">>

\* ---------------------------------------------------------------------
\* C25 (as claimed): every worker is started in the directory captured in
\* s.workingDirectory, with the master's arguments after the program and
\* with the master's standard streams, whatever the master's current
\* directory is at the time of the spawn.
C25_SpawnedInCapturedDirectory ==
    \A i \in 1..Len(workers) :
        /\ workers[i].dir = workingDirectory
        /\ Tail(workers[i].args) = Tail(osArgs)
        /\ workers[i].stdio = osStdio

\* ---------------------------------------------------------------------
\* C26: a generation was sent SIGKILL only after the graceful-shutdown
\* signal, and it is not the new generation, nor the current one outside
\* the forced teardown of a reload; the step that sends SIGKILL is taken
\* in the select of a reload, with the timer fired, to the old generation
\* whose exit the master has not received; a generation whose exit was
\* received is sent nothing afterwards.
C26_ForcedKillOnlyAfterTimerOnOldGeneration ==
    /\ [](\A g \in Gens :
            Has(sent[g], "SIGKILL")
              => /\ sent[g] = <<gracefulShutdownSignalToChild, "SIGKILL">>
                 /\ g # newChildCmd
                 /\ g = childCmd => pc = "hupKilled" /\ InReload)
    /\ [][sent' # sent
            => /\ (\E g \in Gens : /\ Len(sent'[g]) > Len(sent[g])
                                   /\ sent'[g][Len(sent'[g])] = "SIGKILL")
                    => /\ pc = "hupSelect"
                       /\ InReload
                       /\ timerFired
                       /\ childCmd # newChildCmd
                       /\ sent[childCmd] = <<gracefulShutdownSignalToChild>>
                       /\ ~Observed(childCmd)
                       /\ sent' = [sent EXCEPT
                                     ![childCmd] = Append(@, "SIGKILL")]
               /\ \A g \in Gens : Observed(g) => sent'[g] = sent[g]]_vars

\* C26 witness: SIGKILL went to the old generation of a reload after the
\* timer fired.
C26_Witness ==
    /\ pc = "hupKilled"
    /\ sent[childCmd] = <<gracefulShutdownSignalToChild, "SIGKILL">>
    /\ sent[newChildCmd] = <<>>
    /\ ~Observed(childCmd)

\* ---------------------------------------------------------------------
\* C27: when RunMaster has returned nil, every generation that was spawned
\* has exited, has been reaped, and its exit report has been received by
\* the master.
C27_NilReturnLeavesNoWorker ==
    ret = "nil"
        => \A g \in 1..nSpawned : proc[g].st = "reaped" /\ Observed(g)

\* C27 witness: a nil return after the largest number of generations.
C27_Witness ==
    /\ ret = "nil"
    /\ nSpawned = MaxGen

\* ---------------------------------------------------------------------
\* C28: a step spawns a generation, exactly one, if and only if it is the
\* initial spawn, the start of a reload, or the receipt of the current
\* generation's exit by the top-level loop (each with a startProcess that
\* succeeds); a report is only ever received from the channel of the
\* current generation, and the receipt that ends a reload spawns nothing.
C28_RetiredExitNeverRestarts ==
    [][LET initial     == pc = "start" /\ pc' = "waitReadyInit"
           reloadStart == pc = "loop" /\ pc' = "hupWaitReady"
           topExit     == /\ pc = "loop" /\ pc' = "loop"
                          /\ waitErrC[childCmd] # <<>>
                          /\ waitErrC'[childCmd] = <<>>
       IN  /\ nSpawned' = nSpawned
                + (IF initial \/ reloadStart \/ topExit THEN 1 ELSE 0)
           /\ \A g \in Gens :
                (waitErrC[g] # <<>> /\ waitErrC'[g] = <<>>) => g = childCmd
           /\ (pc \in {"hupSelect", "hupKilled"} /\ pc' = "loop")
                => /\ nSpawned' = nSpawned
                   /\ waitErrC[childCmd] # <<>>
                   /\ waitErrC'[childCmd] = <<>>]_vars

\* C28 witness: three generations: the initial one, retired by a reload;
\* the one of the reload, whose exit the top-level loop received; and its
\* replacement.
C28_Witness ==
    /\ pc = "loop"
    /\ nSpawned = 3
    /\ childCmd = 3
    /\ sent[1] # <<>>
    /\ Observed(1)
    /\ readyResult[2] = "nil"
    /\ sent[2] = <<>>
    /\ Observed(2)
    /\ readyResult[3] = "none"

\* ---------------------------------------------------------------------
\* C29: the exit report of the current or the new generation, once its
\* watcher has sent it, stays in that generation's channel until the
\* master receives it, also across the teardown of a reload; and the
\* top-level loop's receipt of the current generation's report spawns
\* exactly one replacement (or returns the spawn error).
C29_NewGenerationExitDuringReload ==
    /\ [](pc \in {"loop", "hupWaitReady", "hupSelect", "hupKilled", "stopWait"}
            => \A g \in {childCmd, newChildCmd} \ {0} :
                  watcher[g] = "done" => waitErrC[g] = <<proc[g].err>>)
    /\ [][(/\ pc = "loop"
           /\ waitErrC[childCmd] # <<>>
           /\ waitErrC'[childCmd] = <<>>)
            => \/ /\ pc' = "loop"
                  /\ nSpawned' = nSpawned + 1
                  /\ childCmd' = nSpawned + 1
                  /\ proc'[nSpawned + 1].st = "running"
                  /\ watcher'[nSpawned + 1] = "waiting"
               \/ /\ ret' = "errRestart"
                  /\ nSpawned' = nSpawned]_vars

\* C29 witness: the new generation, confirmed ready, has exited and its
\* report is buffered while the master still waits for the old generation.
C29_Witness ==
    /\ pc = "hupKilled"
    /\ readyResult[newChildCmd] = "nil"
    /\ watcher[newChildCmd] = "done"
    /\ waitErrC[newChildCmd] = <<"err">>
    /\ waitErrC[childCmd] = <<>>

\* ---------------------------------------------------------------------
\* C30: until the first waitReady has returned, and after a return caused
\* by the initial spawn or the initial readiness, at most one generation
\* was spawned, no child was sent a signal and no signal was accepted; the
\* master enters the loop from the first waitReady only on success and
\* otherwise returns the error.
C30_NoSignalHandlingBeforeFirstReady ==
    /\ []((pc \in {"start", "waitReadyInit"}
             \/ ret \in {"errGetwd", "errStart", "errReadyInit"})
            => /\ nSpawned <= 1
               /\ newChildCmd = 0
               /\ signals = <<>>
               /\ \A g \in Gens : sent[g] = <<>>
               /\ readyResult[1] # "nil")
    /\ [][/\ (pc = "start" /\ pc' # pc)
               => \/ pc' = "waitReadyInit" /\ nSpawned' = 1 /\ ret' = "none"
                  \/ pc' = "done" /\ nSpawned' = 0
                        /\ ret' \in {"errGetwd", "errStart"}
          /\ (pc = "waitReadyInit" /\ pc' # pc)
               => IF readyResult'[1] = "nil"
                  THEN pc' = "loop" /\ ret' = "none"
                  ELSE pc' = "done" /\ ret' = "errReadyInit"]_vars

\* C30 witness: the initial worker wrote a wrong byte and RunMaster
\* returned the readiness error.
C30_Witness ==
    /\ ret = "errReadyInit"
    /\ readyResult[1] = "protocolError"
    /\ nSpawned = 1
    /\ sent[1] = <<>>

=============================================================================
